---- MODULE Spec2Model ----
(***************************************************************************)
(* Model of the provisioning dispatcher (provisionToTarget and the poll    *)
(* timer of updateProvisionStatus) and of the AuthClient (getAccessToken,  *)
(* logOut) of Composer/packages/client/src/App.js.                         *)
(*                                                                         *)
(* JavaScript objects are modelled as functions from the set of keys they  *)
(* carry to values, so that the object spread {...a, ...b}, a missing key  *)
(* and `delete` keep their meaning.                                        *)
(***************************************************************************)
EXTENDS Integers, Sequences, FiniteSets, TLC

\* ------------------------------------------------------------------ bounds
\* firings of poll timers (status GETs issued), all attempts together
MaxTicks == 3

\* ------------------------------------------------------------ small inputs
\* the calls of provisionToTarget, in call order
AttemptIds == {1, 2}
Projects == {"p1"}
Targets == {"t1", "t2"}
PublishType == "azurePublish"

\* ------------------------------------------------------------- JS objects
EmptyObj == [f \in {} |-> FALSE]

\* {...a, ...b}
Spread(a, b) ==
  [f \in (DOMAIN a) \cup (DOMAIN b) |-> IF f \in DOMAIN b THEN b[f] ELSE a[f]]

\* variant: the entry is written under a fixed key
SingleKeyFixed(k, v) == [f \in {"t1"} |-> v]

\* { [k]: v }
SingleKey(k, v) == [f \in {k} |-> v]

\* variant: the key is not deleted
DeleteKeyKeeps(m, k) == m

\* variant: the updater returns an empty map
DeleteKeyAll(m, k) == EmptyObj

\* const c = {...m}; delete c[k]
DeleteKey(m, k) == [f \in (DOMAIN m) \ {k} |-> m[f]]

\* m[k], undefined when the key is missing; {...undefined} is {}
GetOrEmpty(m, k) == IF k \in DOMAIN m THEN m[k] ELSE EmptyObj

\* ---------------------------------------------------------- notifications
getProvisionPendingNotification(value) ==
  [title |-> "Provisioning ...", description |-> value, type |-> "pending"]

\* variant: the success card is built with the pending type
getProvisionSuccessNotificationAsPending(value) ==
  [title |-> "Provision success", description |-> value, type |-> "pending"]

getProvisionSuccessNotification(value) ==
  [title |-> "Provision success", description |-> value, type |-> "success"]

getProvisionFailureNotification(value) ==
  [title |-> "Provision failure", description |-> value, type |-> "error"]

\* formatMessage('{msg}', { msg: undefined })
UndefinedMsg == "undefined"

VARIABLES
  attempts,        \* one record per call of provisionToTarget, in call order
  notifications,   \* the notification list; a notification's id is its index
  provisionStatus, \* provisionStatusState(projectId): targetName -> record
  settings,        \* settingsState(projectId)
  eagerSnapshot,   \* whether callbackHelpers.snapshot is cloned when the
                   \* callback is called (TRUE) or on its first use (FALSE)
  uncaught,        \* an exception left a handler of the dispatcher
  auth,            \* the AuthClient module, its storage and its running call
  luis             \* a call of publishLuisToPrediction: its inputs and its progress

provVars == <<attempts, notifications, provisionStatus, settings, eagerSnapshot, uncaught>>

authVars == <<auth>>

vars == <<attempts, notifications, provisionStatus, settings, eagerSnapshot, uncaught, auth, luis>>

\* createNotification: the card with a fresh id
createNotification(card, list) == Spread(card, [id |-> Len(list) + 1])

\* addNotificationInternal
addNotificationInternal(list, n) == Append(list, n)

\* updateNotificationInternal: the notification of that id is replaced by the card
updateNotificationInternal(list, nid, card) ==
  [i \in DOMAIN list |-> IF list[i].id = nid THEN Spread(card, [id |-> nid]) ELSE list[i]]

\* ------------------------------------------------------- server responses
CfgFull == [subscriptionId |-> "s1"]
CfgEmpty == EmptyObj

\* JSON.stringify(config, null, 2)
JsonStringify(c) ==
  IF DOMAIN c = {} THEN "{}"
  ELSE IF c = CfgFull THEN "{\n  \"subscriptionId\": \"s1\"\n}"
  ELSE "?"

\* outcomes of the status GET: a response (with its data, or with none), or
\* a rejection carrying err.response.data
StatusResponses ==
  { [name |-> "r202", throws |-> FALSE, hasData |-> TRUE,
     data |-> [status |-> 202, message |-> "creating"]],
    [name |-> "r200cfg", throws |-> FALSE, hasData |-> TRUE,
     data |-> [status |-> 200, message |-> "done", config |-> CfgFull]],
    [name |-> "r200empty", throws |-> FALSE, hasData |-> TRUE,
     data |-> [status |-> 200, message |-> "done", config |-> CfgEmpty]],
    [name |-> "r200none", throws |-> FALSE, hasData |-> TRUE,
     data |-> [status |-> 200, message |-> "waiting"]],
    [name |-> "r500", throws |-> FALSE, hasData |-> TRUE,
     data |-> [status |-> 500, message |-> "failed"]],
    [name |-> "rnull", throws |-> FALSE, hasData |-> FALSE, data |-> EmptyObj],
    [name |-> "errPayload", throws |-> TRUE, hasData |-> TRUE,
     data |-> [message |-> "gateway"]] }

PendingNames == {"r202", "r200none"}

\* config != {} : the literal is a new object, and != on two objects
\* compares their identity, so the test is true of every config
LooseNotEqualsObjectLiteral(c) == TRUE

\* response.data?.status === 200 && response.data.config && response.data.config != {}
IsTerminalSuccess(o) ==
  /\ o.hasData
  /\ "status" \in DOMAIN o.data
  /\ o.data.status = 200
  /\ "config" \in DOMAIN o.data
  /\ LooseNotEqualsObjectLiteral(o.data.config)

\* response.data.message / err.response?.data?.message
MessageOf(data) == IF "message" \in DOMAIN data THEN data.message ELSE UndefinedMsg

NoSnapshot == [taken |-> FALSE, value |-> EmptyObj]

\* callbackHelpers.snapshot: a Recoil Snapshot is an immutable copy of the
\* atoms; a set made after it was cloned is not seen through it. The callback
\* interface clones it when the callback is called, or at its first use,
\* depending on the version of the library (eagerSnapshot).
TakeSnapshot(value) == [taken |-> TRUE, value |-> value]

\* ------------------------------------------------------------------- Init
InitProv ==
  /\ attempts = <<>>
  /\ notifications = <<>>
  /\ provisionStatus = [p \in Projects |-> EmptyObj]
  /\ settings = [p \in Projects |-> EmptyObj]
  /\ eagerSnapshot \in BOOLEAN
  /\ uncaught = FALSE

\* ---------------------------------------------------------------- actions
TotalGets == LET RECURSIVE Sum(_)
                 Sum(i) == IF i = 0 THEN 0 ELSE attempts[i].gets + Sum(i - 1)
             IN Sum(Len(attempts))

\* provisionToTarget is called: the callback interface is built and the POST sent
ProvisionCall(p) ==
  /\ Len(attempts) < Cardinality(AttemptIds)
  /\ attempts' = Append(attempts,
       [projectId |-> p, targetType |-> PublishType, phase |-> "posting",
        targetName |-> "", jobId |-> 0, notificationId |-> 0,
        timer |-> "none", timers |-> 0, inflight |-> 0, gets |-> 0, clears |-> 0,
        hist |-> <<>>, notifUpdates |-> 0,
        snap |-> IF eagerSnapshot THEN TakeSnapshot(provisionStatus[p]) ELSE NoSnapshot])
  /\ UNCHANGED <<notifications, provisionStatus, settings, eagerSnapshot, uncaught, auth, luis>>

\* variant: updateProvisionStatus is not called
StartTimerSkipped(rec) == rec

\* setInterval(..., 5000) in updateProvisionStatus
StartTimer(rec) == [rec EXCEPT !.timer = "live", !.timers = @ + 1]

\* the POST resolved: the rest of the try block
PostResolved(a, t) ==
  /\ a \in DOMAIN attempts
  /\ attempts[a].phase = "posting"
  /\ LET p == attempts[a].projectId
         data == [id |-> a, processName |-> t, message |-> "accepted"]
         n == createNotification(getProvisionPendingNotification(data.message), notifications)
     IN /\ notifications' = addNotificationInternal(notifications, n)
        /\ provisionStatus' = [provisionStatus EXCEPT ![p] =
              Spread(@, SingleKey(data.processName, Spread(data, [notificationId |-> n.id])))]
        /\ attempts' = [attempts EXCEPT ![a] =
              StartTimer([@ EXCEPT !.phase = "polling", !.targetName = data.processName,
                                   !.jobId = data.id, !.notificationId = n.id])]
  /\ UNCHANGED <<settings, eagerSnapshot, uncaught, auth, luis>>

\* the POST rejected: the catch block
PostRejected(a, hasPayload) ==
  /\ a \in DOMAIN attempts
  /\ attempts[a].phase = "posting"
  /\ LET value == IF hasPayload THEN "quota exceeded" ELSE "Error when provision target"
         n == createNotification(getProvisionFailureNotification(value), notifications)
     IN notifications' = addNotificationInternal(notifications, n)
  /\ attempts' = [attempts EXCEPT ![a].phase = "failed"]
  /\ UNCHANGED <<provisionStatus, settings, eagerSnapshot, uncaught, auth, luis>>

\* the timer fires: the callback starts and sends the status GET; setInterval
\* does not wait for the promise of the previous callback
TimerFires(a) ==
  /\ a \in DOMAIN attempts
  /\ attempts[a].timer = "live"
  /\ TotalGets < MaxTicks
  /\ attempts' = [attempts EXCEPT ![a].inflight = @ + 1, ![a].gets = @ + 1]
  /\ UNCHANGED <<notifications, provisionStatus, settings, eagerSnapshot, uncaught, auth, luis>>

\* variant: the timer is left running
ClearIntervalForgotten(rec) == rec

\* clearInterval(timer)
ClearInterval(rec) == [rec EXCEPT !.timer = "cleared", !.clears = @ + 1]

\* variant: no catch around the tick's body
TickRethrows == FALSE

\* try { ... } catch (err) { ... } around the tick's body
TickCatches == TRUE

\* the terminal-success branch
TickSuccess(a, o) ==
  LET r == attempts[a]
      profile == [configuration |-> JsonStringify(o.data.config),
                  name |-> r.targetName, type |-> r.targetType]
      old == settings[r.projectId]
      targetlist == (IF "publishTargets" \in DOMAIN old THEN old.publishTargets ELSE <<>>)
                    \o <<profile>>
  IN /\ provisionStatus' = [provisionStatus EXCEPT ![r.projectId] = DeleteKey(@, r.targetName)]
     /\ settings' = [settings EXCEPT ![r.projectId] = Spread(@, [publishTargets |-> targetlist])]
     /\ notifications' = updateNotificationInternal(notifications, r.notificationId,
                            getProvisionSuccessNotification(MessageOf(o.data)))
     /\ attempts' = [attempts EXCEPT ![a] =
           [ClearInterval(r) EXCEPT !.inflight = @ - 1, !.hist = Append(@, o.name),
                                    !.notifUpdates = @ + 1]]
     /\ UNCHANGED <<eagerSnapshot, uncaught, auth, luis>>

\* the else branch: pending or status 500
TickOther(a, o) ==
  LET r == attempts[a]
      card == IF o.data.status /= 500
              THEN getProvisionPendingNotification(MessageOf(o.data))
              ELSE getProvisionFailureNotification(MessageOf(o.data))
      snap == IF r.snap.taken THEN r.snap ELSE TakeSnapshot(provisionStatus[r.projectId])
      stat == GetOrEmpty(snap.value, r.targetName)
      newStat == Spread(Spread(stat, o.data), [notificationId |-> r.notificationId])
      r1 == [r EXCEPT !.inflight = @ - 1, !.hist = Append(@, o.name),
                      !.notifUpdates = @ + 1, !.snap = snap]
  IN /\ notifications' = updateNotificationInternal(notifications, r.notificationId, card)
     /\ provisionStatus' = [provisionStatus EXCEPT ![r.projectId] =
                               Spread(@, SingleKey(r.targetName, newStat))]
     /\ attempts' = [attempts EXCEPT ![a] =
                       IF o.data.status = 500 THEN ClearInterval(r1) ELSE r1]
     /\ UNCHANGED <<settings, eagerSnapshot, uncaught, auth, luis>>

\* the catch block; payload is err.response?.data, {} when there is none
TickError(a, o, payload) ==
  LET r == attempts[a]
      msg == IF "message" \in DOMAIN payload THEN payload.message ELSE "Error"
      newStat == Spread(payload, [notificationId |-> r.notificationId])
  IN /\ notifications' = updateNotificationInternal(notifications, r.notificationId,
                            getProvisionFailureNotification(msg))
     /\ provisionStatus' = [provisionStatus EXCEPT ![r.projectId] =
                               Spread(@, SingleKey(r.targetName, newStat))]
     /\ attempts' = [attempts EXCEPT ![a] =
           [ClearInterval(r) EXCEPT !.inflight = @ - 1, !.hist = Append(@, o.name),
                                    !.notifUpdates = @ + 1]]
     /\ uncaught' = (uncaught \/ ~TickCatches)
     /\ UNCHANGED <<settings, eagerSnapshot, auth, luis>>

\* the status GET of a tick settles and the tick runs to its end (the await
\* of snapshot.getPromise on an atom resumes in a microtask: no timer and no
\* other response is handled in between)
TickResponse(a, o) ==
  /\ a \in DOMAIN attempts
  /\ attempts[a].inflight > 0
  /\ IF o.throws THEN TickError(a, o, o.data)
     ELSE IF IsTerminalSuccess(o) THEN TickSuccess(a, o)
     ELSE IF ~o.hasData THEN TickError(a, o, EmptyObj)
     ELSE TickOther(a, o)


\* =================================================== publishLuisToPrediction
\* files under the ComposerDialogs directory
MaxFiles == 2

\* a string is kept as the sequence of its pieces, so that includes and
\* indexOf are decided by where a piece stands
Includes(str, piece) == \E i \in DOMAIN str : str[i] = piece

\* str.indexOf(piece): 0 when str begins with the piece, -1 when it is absent
IndexOf(str, piece) ==
  IF Includes(str, piece)
  THEN (CHOOSE i \in DOMAIN str :
          str[i] = piece /\ \A j \in DOMAIN str : str[j] = piece => i <= j) - 1
  ELSE -1

SettingsPiece == "luis.settings"
ExpiryPiece == "access token expiry"
RemediationPiece == ", run az account get-access-token, then replace the accessToken in your configuration"

\* what getFiles(botPath(path)) can list: the path of a file and what
\* fs.readJson gives for it (a rejection, or the luis field of the content:
\* missing, or the dialog-to-app mapping as its entries in order)
DialogFiles ==
  { [path |-> <<"main", ".dialog">>, readable |-> FALSE, hasLuis |-> FALSE, luis |-> <<>>],
    [path |-> <<"generated/", "luis.settings", ".dev.json">>, readable |-> TRUE, hasLuis |-> TRUE,
     luis |-> << <<"main", "app1">> >>],
    [path |-> <<"generated/", "luis.settings", ".prod.json">>, readable |-> TRUE, hasLuis |-> TRUE,
     luis |-> << <<"main", "app2">>, <<"sub", "app3">> >>],
    [path |-> <<"luis.settings", ".empty.json">>, readable |-> TRUE, hasLuis |-> TRUE, luis |-> <<>>],
    [path |-> <<"luis.settings", ".old.json">>, readable |-> TRUE, hasLuis |-> FALSE, luis |-> <<>>],
    [path |-> <<"luis.settings", ".bak">>, readable |-> FALSE, hasLuis |-> FALSE, luis |-> <<>>] }

\* the listings: sequences of distinct files
FileLists ==
  UNION { {fs \in [1..n -> DialogFiles] : \A i, j \in 1..n : i /= j => fs[i] /= fs[j]} :
          n \in 0..MaxFiles }

\* .filter((filename) => filename.includes('luis.settings'))
luisConfigFiles(files) == SelectSeq(files, LAMBDA f : Includes(f.path, SettingsPiece))

\* target[key] = value: a key already there keeps its place
AssignKey(target, entry) ==
  IF \E i \in DOMAIN target : target[i][1] = entry[1]
  THEN [i \in DOMAIN target |-> IF target[i][1] = entry[1] THEN entry ELSE target[i]]
  ELSE Append(target, entry)

\* Object.assign(target, source), source undefined or an object
RECURSIVE ObjectAssign(_, _)
ObjectAssign(target, source) ==
  IF source = <<>> THEN target
  ELSE ObjectAssign(AssignKey(target, Head(source)), Tail(source))

\* the loop that reads the mappings, up to the first readJson that rejects
RECURSIVE ReadMappings(_, _)
ReadMappings(configFiles, appIds) ==
  IF configFiles = <<>> THEN [ok |-> TRUE, appIds |-> appIds]
  ELSE IF ~Head(configFiles).readable THEN [ok |-> FALSE, appIds |-> appIds]
  ELSE ReadMappings(Tail(configFiles),
                    IF Head(configFiles).hasLuis
                    THEN ObjectAssign(appIds, Head(configFiles).luis)
                    ELSE appIds)

\* variant: the publish goes on with no app id
NoKeysIgnored(appIds) == FALSE

\* !Object.keys(luisAppIds).length
NoKeys(appIds) == Len(appIds) = 0

\* err.error of a failed accounts request: not a string (a network failure
\* carries the cause, an Error object), a body that is not JSON, or a JSON text
NotAString == [kind |-> "object"]
NotJson == [kind |-> "text"]
JsonNull == [kind |-> "json", null |-> TRUE, obj |-> EmptyObj]
JsonObj(o) == [kind |-> "json", null |-> FALSE, obj |-> o]

\* the errors rp.get can reject with
AccountErrors ==
  { [type |-> "RequestError", error |-> NotAString],
    [type |-> "StatusCodeError", error |-> NotJson],
    [type |-> "StatusCodeError", error |-> JsonNull],
    [type |-> "StatusCodeError", error |-> JsonObj([statusCode |-> 429])],
    [type |-> "StatusCodeError", error |-> JsonObj([error |-> [code |-> "403"]])],
    [type |-> "StatusCodeError",
     error |-> JsonObj([error |-> [code |-> "403", message |-> <<"Forbidden">>]])],
    [type |-> "StatusCodeError",
     error |-> JsonObj([error |-> [code |-> "401",
                        message |-> <<"The ", "access token expiry", " UTC time is earlier than now">>]])],
    [type |-> "StatusCodeError",
     error |-> JsonObj([error |-> [code |-> "401",
                        message |-> <<"access token expiry", " reached">>]])] }

NoError == [type |-> "none"]

\* JSON.parse(err.error): a SyntaxError unless the argument is JSON text
JsonParse(payload) ==
  IF payload.kind = "json" THEN [ok |-> TRUE, value |-> payload] ELSE [ok |-> FALSE]

\* error?.error?.message, the empty string standing for undefined too
ErrorMessage(parsed) ==
  IF parsed.null \/ "error" \notin DOMAIN parsed.obj THEN <<>>
  ELSE IF "message" \notin DOMAIN parsed.obj.error THEN <<>>
  ELSE parsed.obj.error.message

\* the catch block of the accounts request: what it throws for err
CatchAccounts(err) ==
  LET parsed == JsonParse(err.error)
  IN IF ~parsed.ok THEN [type |-> "SyntaxError"]
     ELSE LET message == ErrorMessage(parsed.value)
          IN IF message /= <<>> /\ IndexOf(message, ExpiryPiece) > 0
             THEN [type |-> "Error",
                   message |-> <<"Type: ", parsed.value.obj.error.code, ", Message: ">>
                                 \o message \o <<RemediationPiece>>]
             ELSE err

LuisRecord(pc, files) ==
  [pc |-> pc, files |-> files, appIds |-> <<>>, gets |-> 0, posts |-> 0, next |-> 1,
   accountFound |-> FALSE, requestError |-> NoError,
   result |-> [state |-> "none", value |-> <<>>, error |-> NoError]]

\* publishLuisToPrediction is not running
LuisIdle == luis = LuisRecord("idle", <<>>)

\* publishLuisToPrediction is called on a project directory
InitLuis == \E files \in FileLists : luis = LuisRecord("start", files)

Returns(st, value) ==
  [st EXCEPT !.pc = "done", !.result = [state |-> "returned", value |-> value, error |-> NoError]]

Throws(st, err) ==
  [st EXCEPT !.pc = "done", !.result = [state |-> "thrown", value |-> <<>>, error |-> err]]

\* from the call to the accounts GET: the scan, the reads, the early return
ScanFiles ==
  /\ luis.pc = "start"
  /\ LET read == ReadMappings(luisConfigFiles(luis.files), <<>>)
         st == [luis EXCEPT !.appIds = read.appIds]
     IN luis' = IF ~read.ok THEN Throws(st, [type |-> "ReadError"])
                ELSE IF NoKeys(read.appIds) THEN Returns(st, read.appIds)
                ELSE [st EXCEPT !.pc = "accounts", !.gets = @ + 1]
  /\ UNCHANGED <<provVars, authVars>>

\* the accounts GET resolved. A body that is not JSON makes JSON.parse throw
\* inside the try: the catch block then parses the error field of that
\* SyntaxError, which has none. Otherwise getAccount, then the first
\* assignment POST.
AccountsResolve(body) ==
  /\ luis.pc = "accounts"
  /\ luis' = IF body = "notJson"
             THEN Throws(luis, CatchAccounts([type |-> "SyntaxError", error |-> NotAString]))
             ELSE [luis EXCEPT !.pc = "assign", !.accountFound = (body = "found"),
                               !.posts = @ + 1]
  /\ UNCHANGED <<provVars, authVars>>

\* the accounts GET rejected with err
AccountsReject(err) ==
  /\ luis.pc = "accounts"
  /\ luis' = Throws([luis EXCEPT !.requestError = err], CatchAccounts(err))
  /\ UNCHANGED <<provVars, authVars>>

\* an assignment POST settled: the next one, or the return of the mapping
AssignSettles(ok) ==
  /\ luis.pc = "assign"
  /\ luis' = IF ~ok THEN Throws(luis, [type |-> "StatusCodeError", error |-> NotJson])
             ELSE IF luis.next = Len(luis.appIds) THEN Returns(luis, luis.appIds)
             ELSE [luis EXCEPT !.next = @ + 1, !.posts = @ + 1]
  /\ UNCHANGED <<provVars, authVars>>

NextLuis ==
  \/ ScanFiles
  \/ \E body \in {"found", "notFound", "notJson"} : AccountsResolve(body)
  \/ \E err \in AccountErrors : AccountsReject(err)
  \/ \E ok \in BOOLEAN : AssignSettles(ok)

\* ================================================================ AuthClient
\* calls of getAccessToken and logOut
MaxAuthCalls == 3

ClientId == "clientId"

\* JavaScript values that a token variable can hold
Undefined == [t |-> "undefined", s |-> ""]
Null == [t |-> "null", s |-> ""]
Str(x) == [t |-> "string", s |-> x]

\* variant: no value counts as a token
TruthyNever(v) == FALSE

Truthy(v) == v.t = "string" /\ v.s /= ""

\* v || ''
OrEmpty(v) == IF Truthy(v) THEN v ELSE Str("")

IdTokens == {"id1", "id2"}
AccessTokens == {"at1", "at2"}

\* a storage key is a string; prefix + suffix is kept as the pair, so that
\* authConfig.clientId + JSON.stringify(scopes) and authConfig.clientId differ
IdTokenKey == <<"idToken", "">>
AccessKey(scopesJson) == <<ClientId, scopesJson>>
ClientKey == <<ClientId, "">>

\* no getAccessToken call yet
NoOptions == [kind |-> "none", scopes |-> ""]

\* the options argument of getAccessToken
AuthOptions ==
  { [kind |-> "undefined", scopes |-> ""],
    [kind |-> "null", scopes |-> ""],
    [kind |-> "primitive", scopes |-> ""],
    [kind |-> "object", scopes |-> ""],
    [kind |-> "object", scopes |-> "[]"],
    [kind |-> "object", scopes |-> "[\"user_impersonation\"]"] }

\* const { targetResource = '', scopes = [] } = options throws a TypeError
\* when options is undefined or null
DestructureThrows(options) == options.kind \in {"undefined", "null"}

\* JSON.stringify(scopes), scopes defaulting to []
ScopesJson(options) == IF options.scopes = "" THEN "[]" ELSE options.scopes

\* storage.get / getTokenFromCache
getTokenFromCache(storage, key) == IF key \in DOMAIN storage THEN storage[key] ELSE Undefined

\* storage.set
StorageSet(storage, key, v) ==
  [k \in (DOMAIN storage) \cup {key} |-> IF k = key THEN v ELSE storage[k]]

\* cleanTokenFromCache
cleanTokenFromCache(storage, key) == [k \in (DOMAIN storage) \ {key} |-> storage[k]]

\* isTokenExpired: the token's expiry instant has passed
isTokenExpired(st, v) == v.s \in st.expired

Settle(st, state, v) == [st EXCEPT !.pc = "idle", !.result = [state |-> state, value |-> v]]

\* try { ... } catch (e) { return '' } of getAccessToken
CatchReturnsEmpty(st) == Settle([st EXCEPT !.did = @ \cup {"caught"}], "resolved", Str(""))

\* the access-token step once the iframe's monitor has settled
AccessDone(st, token) ==
  Settle([st EXCEPT !.frames = @ - 1, !.did = @ \cup {"accessFrameRemoved"},
                    !.storage = StorageSet(@, st.key, token)],
         "resolved", OrEmpty(token))

\* use id token to get access token
AccessStep(st, frameHasWindow) ==
  IF st.idToken.t = "string"
  THEN LET st1 == [st EXCEPT !.frames = @ + 1, !.did = @ \cup {"accessFrame"}]
       IN IF frameHasWindow THEN [st1 EXCEPT !.pc = "access"] ELSE AccessDone(st1, Null)
  ELSE Settle(st, "resolved", Str(""))

\* variant: the id token is kept in the module variable only
IdTokenDoneNotPersisted(st, v, frameHasWindow) ==
  AccessStep([st EXCEPT !.idToken = v], frameHasWindow)

\* storage.set('idToken', idToken || '') after a popup or a refresh
IdTokenDone(st, v, frameHasWindow) ==
  AccessStep([st EXCEPT !.idToken = v,
                        !.storage = StorageSet(@, IdTokenKey, OrEmpty(v))],
             frameHasWindow)

\* getAccessToken from its call to its first await (or to its return)
GetAccessTokenStart(st, options, popupOpens, frameHasWindow) ==
  IF DestructureThrows(options)
  THEN Settle(st, "rejected", Undefined)
  ELSE IF st.electron
  THEN [st EXCEPT !.pc = "fetch"]
  ELSE LET key == AccessKey(ScopesJson(options))
           token == getTokenFromCache(st.storage, key)
           st0 == [st EXCEPT !.key = key]
       IN IF Truthy(token) /\ ~isTokenExpired(st, token)
          THEN Settle(st0, "resolved", token)
          ELSE IF ~Truthy(st.idToken)
          THEN LET st1 == [st0 EXCEPT !.did = @ \cup {"createPopupWindow"}]
               IN IF popupOpens
                  THEN [st1 EXCEPT !.pc = "popup", !.popups = @ + 1]
                  ELSE AccessStep(st1, frameHasWindow)
          ELSE IF isTokenExpired(st, st.idToken)
          THEN LET st1 == [st0 EXCEPT !.frames = @ + 1, !.did = @ \cup {"refreshFrame"}]
               IN IF frameHasWindow
                  THEN [st1 EXCEPT !.pc = "refresh"]
                  ELSE IdTokenDone(st1, Null, frameHasWindow)
          ELSE AccessStep(st0, frameHasWindow)

\* what the awaited fetch / result.json() of the embedded mode gives:
\* a rejection, or the accessToken field of the body
FetchOutcomes ==
  { [throws |-> TRUE, accessToken |-> Undefined],
    [throws |-> FALSE, accessToken |-> Undefined],
    [throws |-> FALSE, accessToken |-> Null],
    [throws |-> FALSE, accessToken |-> Str("at1")] }

\* const { accessToken = '' } = await result.json(); return accessToken
FetchDone(st, o) ==
  IF o.throws THEN CatchReturnsEmpty(st)
  ELSE Settle(st, "resolved", IF o.accessToken = Undefined THEN Str("") ELSE o.accessToken)

\* what monitorWindowForQueryParam resolves to: the parameter or undefined
MonitorResults(tokens) == {Undefined} \cup {Str(x) : x \in tokens}

InitAuth ==
  \E e \in BOOLEAN, id \in {Undefined, Str("id1")} :
    auth = [electron |-> e,
            storage |-> IF id = Undefined THEN <<>> ELSE [k \in {IdTokenKey} |-> id],
            idToken |-> id,
            expired |-> {},
            pc |-> "idle", key |-> ClientKey, frames |-> 0, popups |-> 0, calls |-> 0,
            result |-> [state |-> "none", value |-> Undefined],
            op |-> "none", options |-> NoOptions, did |-> {}]

\* getAccessToken(options) is called
GetAccessToken(options) ==
  /\ auth.pc = "idle"
  /\ auth.calls < MaxAuthCalls
  /\ \E popupOpens \in BOOLEAN, frameHasWindow \in BOOLEAN :
       auth' = GetAccessTokenStart([auth EXCEPT !.calls = @ + 1, !.op = "getAccessToken",
                                                !.options = options, !.did = {}],
                                   options, popupOpens, frameHasWindow)
  /\ UNCHANGED <<provVars, luis>>

\* await fetch(...) / await result.json() settles
FetchSettles(o) ==
  /\ auth.pc = "fetch"
  /\ auth' = FetchDone(auth, o)
  /\ UNCHANGED <<provVars, luis>>

\* the monitor of the popup or of the refresh iframe resolves
IdTokenArrives(v) ==
  /\ auth.pc \in {"popup", "refresh"}
  /\ \E frameHasWindow \in BOOLEAN : auth' = IdTokenDone(auth, v, frameHasWindow)
  /\ UNCHANGED <<provVars, luis>>

\* the monitor of the access-token iframe resolves
AccessTokenArrives(v) ==
  /\ auth.pc = "access"
  /\ auth' = AccessDone(auth, v)
  /\ UNCHANGED <<provVars, luis>>

\* an awaited monitor rejects: the catch block
MonitorThrows ==
  /\ auth.pc \in {"popup", "refresh", "access"}
  /\ auth' = CatchReturnsEmpty(auth)
  /\ UNCHANGED <<provVars, luis>>

\* a token's expiry instant passes
TokenExpires(x) ==
  /\ x \notin auth.expired
  /\ auth' = [auth EXCEPT !.expired = @ \cup {x}]
  /\ UNCHANGED <<provVars, luis>>

\* logOut(): in the embedded mode the awaited fetch of /api/auth/logOut, whose
\* rejection the catch block logs; otherwise the two cleanTokenFromCache calls.
\* did records what this call of logOut did.
LogOut(fetchRejects) ==
  /\ auth.calls < MaxAuthCalls
  /\ LET st == [auth EXCEPT !.calls = @ + 1, !.op = "logOut", !.options = NoOptions]
     IN auth' = IF auth.electron
                THEN [st EXCEPT !.did = IF fetchRejects THEN {"fetchLogOut", "caught"}
                                        ELSE {"fetchLogOut"}]
                ELSE [st EXCEPT !.did = {},
                        !.storage = cleanTokenFromCache(cleanTokenFromCache(@, IdTokenKey), ClientKey)]
  /\ UNCHANGED <<provVars, luis>>

\* the page is loaded again: the module is evaluated anew, and its idToken is
\* read from the cache; the frames, popups and the running call of the page
\* before are gone
ModuleLoad ==
  /\ auth' = [auth EXCEPT !.idToken = getTokenFromCache(auth.storage, IdTokenKey),
                          !.pc = "idle", !.frames = 0, !.key = ClientKey,
                          !.result = [state |-> "none", value |-> Undefined],
                          !.op = "none", !.options = NoOptions, !.did = {}]
  /\ UNCHANGED <<provVars, luis>>

NextAuth ==
  \/ \E options \in AuthOptions : GetAccessToken(options)
  \/ \E o \in FetchOutcomes : FetchSettles(o)
  \/ \E v \in MonitorResults(IdTokens) : IdTokenArrives(v)
  \/ \E v \in MonitorResults(AccessTokens) : AccessTokenArrives(v)
  \/ MonitorThrows
  \/ \E x \in IdTokens \cup AccessTokens : TokenExpires(x)
  \/ \E fetchRejects \in BOOLEAN : LogOut(fetchRejects)
  \/ ModuleLoad

AuthIdle ==
  auth = [electron |-> FALSE, storage |-> <<>>, idToken |-> Undefined, expired |-> {},
          pc |-> "idle", key |-> ClientKey, frames |-> 0, popups |-> 0, calls |-> 0,
          result |-> [state |-> "none", value |-> Undefined],
          op |-> "none", options |-> NoOptions, did |-> {}]

ProvIdle ==
  /\ attempts = <<>>
  /\ notifications = <<>>
  /\ provisionStatus = [p \in Projects |-> EmptyObj]
  /\ settings = [p \in Projects |-> EmptyObj]
  /\ eagerSnapshot = FALSE
  /\ uncaught = FALSE

InitA == InitAuth /\ ProvIdle /\ LuisIdle

\* the AuthClient alone
SpecAuth == InitA /\ [][NextAuth]_vars

InitL == InitLuis /\ ProvIdle /\ AuthIdle

\* publishLuisToPrediction alone
SpecLuis == InitL /\ [][NextLuis]_vars

Next ==
  \/ \E p \in Projects : ProvisionCall(p)
  \/ \E a \in AttemptIds, t \in Targets : PostResolved(a, t)
  \/ \E a \in AttemptIds, b \in BOOLEAN : PostRejected(a, b)
  \/ \E a \in AttemptIds : TimerFires(a)
  \/ \E a \in AttemptIds, o \in StatusResponses : TickResponse(a, o)

Init == InitProv /\ AuthIdle /\ LuisIdle

\* the provisioning dispatcher alone

Spec == Init /\ [][Next]_vars

\* ------------------------------------------------- reading the state
Last(s) == s[Len(s)]

Range(s) == {s[i] : i \in DOMAIN s}

\* the step is the end of a tick of attempt a that handled outcome `name`
Processed(a, name) ==
  /\ a \in DOMAIN attempts
  /\ Len(attempts'[a].hist) = Len(attempts[a].hist) + 1
  /\ Last(attempts'[a].hist) = name

\* settings.publishTargets || []
TargetsOf(s) == IF "publishTargets" \in DOMAIN s THEN s.publishTargets ELSE <<>>

ProfileOf(r, c) == [name |-> r.targetName, type |-> r.targetType, configuration |-> JsonStringify(c)]

HasEntry(ps, r) == r.targetName \in DOMAIN ps[r.projectId]

EntryOf(ps, r) == GetOrEmpty(ps[r.projectId], r.targetName)

\* ---------------------------------------------------------------- claims

\* C1 (as claimed): getAccessToken never rejects; for every input, in both
\* modes and for every failure of fetch, popup or iframe monitoring its
\* promise resolves to a string.
C1_NeverThrows ==
  /\ auth.result.state /= "rejected"
  /\ auth.result.state = "resolved" => auth.result.value.t = "string"

\* C2: a tick whose response has status 200 and a non-empty config cancels
\* the timer, removes the status entry of targetName, appends one profile
\* (name, type, serialized config) after the earlier publish targets and
\* sets the notification to success.
C2_TerminalSuccess ==
  [][\A a \in AttemptIds : Processed(a, "r200cfg") =>
       LET r == attempts[a] IN
         /\ attempts'[a].timer = "cleared"
         /\ ~HasEntry(provisionStatus', r)
         /\ TargetsOf(settings'[r.projectId]) =
              TargetsOf(settings[r.projectId]) \o <<ProfileOf(r, CfgFull)>>
         /\ notifications'[r.notificationId].type = "success"
         /\ notifications'[r.notificationId].description = "done"]_vars

C2_Witness ==
  \E a \in DOMAIN attempts :
    /\ attempts[a].hist /= <<>>
    /\ Last(attempts[a].hist) = "r200cfg"
    /\ Len(TargetsOf(settings[attempts[a].projectId])) = 2
    /\ Last(TargetsOf(settings[attempts[a].projectId])) = ProfileOf(attempts[a], CfgFull)
    /\ notifications[attempts[a].notificationId].type = "success"

\* C3 (as claimed): a 200 response whose config is missing or is an empty
\* object does not cancel the timer, delete the status entry, append a
\* publish target or produce a success notification.
C3_OnlyNonEmptyConfig ==
  [][\A a \in AttemptIds : (Processed(a, "r200none") \/ Processed(a, "r200empty")) =>
       LET r == attempts[a] IN
         /\ attempts'[a].timer = r.timer
         /\ HasEntry(provisionStatus', r)
         /\ settings' = settings
         /\ notifications'[r.notificationId].type /= "success"]_vars

\* C4: a tick that handles status 500 leaves the notification with type
\* error and the timer cancelled, and from then on no status GET is issued
\* for the attempt.
C4_Terminal500 ==
  [][\A a \in AttemptIds :
       /\ Processed(a, "r500") =>
            /\ notifications'[attempts[a].notificationId].type = "error"
            /\ attempts'[a].timer = "cleared"
       /\ (a \in DOMAIN attempts /\ "r500" \in Range(attempts[a].hist)) =>
            attempts'[a].gets = attempts[a].gets]_vars

C4_Witness ==
  \E a \in DOMAIN attempts :
    /\ attempts[a].hist = <<"r202", "r500">>
    /\ attempts[a].timer = "cleared"
    /\ notifications[attempts[a].notificationId].type = "error"
    /\ TotalGets < MaxTicks

\* C5 (as claimed): a tick whose response is neither terminal success nor
\* status 500 sets the notification to pending with the latest message, sets
\* the status entry to the response merged over the entry's previous record
\* and leaves the timer as it was.
C5_StillPending ==
  [][\A a \in AttemptIds : \A o \in StatusResponses :
       (~o.throws /\ ~IsTerminalSuccess(o) /\ o.name /= "r500" /\ Processed(a, o.name)) =>
         LET r == attempts[a] IN
           /\ notifications'[r.notificationId].type = "pending"
           /\ notifications'[r.notificationId].description = MessageOf(o.data)
           /\ EntryOf(provisionStatus', r) =
                Spread(Spread(EntryOf(provisionStatus, r), o.data),
                       [notificationId |-> r.notificationId])
           /\ attempts'[a].timer = r.timer]_vars

\* C6: a tick whose GET rejects, or whose handling of the response throws,
\* sets the notification to error, writes the error payload with the
\* notificationId as the status entry, cancels the timer, and no exception
\* leaves the tick.
C6_TickErrorContained ==
  [][\A a \in AttemptIds : \A o \in StatusResponses :
       ((o.throws \/ ~o.hasData) /\ Processed(a, o.name)) =>
         LET r == attempts[a] IN
           /\ notifications'[r.notificationId].type = "error"
           /\ notifications'[r.notificationId].description =
                (IF o.throws THEN o.data.message ELSE "Error")
           /\ HasEntry(provisionStatus', r)
           /\ EntryOf(provisionStatus', r) =
                Spread(IF o.throws THEN o.data ELSE EmptyObj,
                       [notificationId |-> r.notificationId])
           /\ attempts'[a].timer = "cleared"
           /\ ~uncaught']_vars

C6_Witness ==
  /\ ~uncaught
  /\ \E a, b \in DOMAIN attempts :
       /\ attempts[a].hist = <<"r202", "errPayload">>
       /\ attempts[b].hist = <<"rnull">>
       /\ attempts[a].timer = "cleared"
       /\ attempts[b].timer = "cleared"
       /\ attempts[a].targetName /= attempts[b].targetName
       /\ EntryOf(provisionStatus, attempts[a]) =
            [message |-> "gateway", notificationId |-> attempts[a].notificationId]

\* C7: when the POST succeeds exactly one pending notification is added, a
\* status entry keyed by the returned processName and carrying that
\* notification's id is added, and exactly one timer is started; when it
\* fails exactly one failure notification is added, no timer is started and
\* the status map and the settings are unchanged.
C7_StartUp ==
  [][\A a \in AttemptIds : (a \in DOMAIN attempts /\ attempts[a].phase = "posting") =>
       /\ attempts'[a].phase = "polling" =>
            LET r == attempts'[a] IN
              /\ Len(notifications') = Len(notifications) + 1
              /\ Last(notifications').type = "pending"
              /\ Last(notifications').id = r.notificationId
              /\ \A i \in DOMAIN notifications : notifications'[i] = notifications[i]
              /\ HasEntry(provisionStatus', r)
              /\ EntryOf(provisionStatus', r).processName = r.targetName
              /\ EntryOf(provisionStatus', r).notificationId = r.notificationId
              /\ r.timer = "live" /\ r.timers = 1 /\ r.gets = 0
              /\ settings' = settings
       /\ attempts'[a].phase = "failed" =>
              /\ Len(notifications') = Len(notifications) + 1
              /\ Last(notifications').type = "error"
              /\ \A i \in DOMAIN notifications : notifications'[i] = notifications[i]
              /\ attempts'[a].timer = "none" /\ attempts'[a].timers = 0
              /\ provisionStatus' = provisionStatus
              /\ settings' = settings]_vars

C7_Witness ==
  /\ Len(attempts) = 2
  /\ attempts[1].phase = "failed"
  /\ attempts[2].phase = "polling"
  /\ attempts[2].timer = "live"
  /\ Len(notifications) = 2
  /\ notifications[1].type = "error"
  /\ notifications[2].type = "pending"
  /\ DOMAIN provisionStatus[attempts[2].projectId] = {attempts[2].targetName}

\* C8: when the responses a poller handles are k >= 0 pending ones followed
\* by one 200 with config, each tick updates the notification exactly once
\* (k + 1 updates), the notification ends as success, the status entry of
\* the target is absent and settings.publishTargets holds a profile with the
\* target's name and type.
C8_PendingThenSuccess ==
  [][\A a \in AttemptIds :
       /\ Processed(a, "r200cfg") /\ Range(attempts[a].hist) \subseteq PendingNames =>
            LET r == attempts'[a] IN
              /\ r.notifUpdates = Len(attempts[a].hist) + 1
              /\ notifications'[r.notificationId].type = "success"
              /\ ~HasEntry(provisionStatus', r)
              /\ \E i \in DOMAIN TargetsOf(settings'[r.projectId]) :
                   /\ TargetsOf(settings'[r.projectId])[i].name = r.targetName
                   /\ TargetsOf(settings'[r.projectId])[i].type = r.targetType
       /\ \A n \in PendingNames \cup {"r200cfg"} :
            Processed(a, n) => attempts'[a].notifUpdates = attempts[a].notifUpdates + 1]_vars

C8_Witness ==
  \E a \in DOMAIN attempts :
    /\ attempts[a].hist = <<"r202", "r202", "r200cfg">>
    /\ attempts[a].notifUpdates = 3
    /\ notifications[attempts[a].notificationId].type = "success"
    /\ ~HasEntry(provisionStatus, attempts[a])

StepOf(a) ==
  /\ a \in DOMAIN attempts
  /\ \/ attempts[a].phase = "posting" /\ attempts'[a].phase = "polling"
     \/ Len(attempts'[a].hist) = Len(attempts[a].hist) + 1

C10_NoOverlap ==
  \A a \in DOMAIN attempts : attempts[a].inflight <= 1

\* the status entries of every target but t, and every notification but nid
OtherEntries(ps, p, t) == [f \in (DOMAIN ps[p]) \ {t} |-> ps[p][f]]

OtherNotifications(list, nid) == [i \in (DOMAIN list) \ {nid} |-> list[i]]

\* C11: a tick of the timer for targetName writes no status entry but that
\* of targetName and no notification but its own, and it keeps every publish
\* target that was there; so the ticks of attempts for different targets do
\* not disturb each other under any interleaving.
C11_Independence ==
  [][\A a \in AttemptIds : StepOf(a) =>
       LET r == attempts'[a] IN
         /\ OtherEntries(provisionStatus', r.projectId, r.targetName) =
              OtherEntries(provisionStatus, r.projectId, r.targetName)
         /\ OtherNotifications(notifications', r.notificationId) =
              OtherNotifications(notifications, r.notificationId)
         /\ \A i \in DOMAIN TargetsOf(settings[r.projectId]) :
              /\ i \in DOMAIN TargetsOf(settings'[r.projectId])
              /\ TargetsOf(settings'[r.projectId])[i] = TargetsOf(settings[r.projectId])[i]
         /\ \A b \in DOMAIN attempts : b /= a => attempts'[b] = attempts[b]]_vars

\* two attempts for different targets whose ticks interleaved: the first
\* ended in success while the second is still pending
C11_Witness ==
  /\ Len(attempts) = 2
  /\ attempts[1].targetName = "t1" /\ attempts[2].targetName = "t2"
  /\ attempts[1].hist = <<"r202", "r200cfg">>
  /\ attempts[2].hist = <<"r202">>
  /\ "t2" \in DOMAIN provisionStatus["p1"]
  /\ provisionStatus["p1"]["t2"].status = 202
  /\ notifications[attempts[2].notificationId].type = "pending"
  /\ notifications[attempts[1].notificationId].type = "success"

\* C12 (as claimed): a poll timer is cancelled exactly once: clearInterval is
\* executed only by a tick that handled terminal success, status 500 or an
\* error, and never a second time for the same timer.
C12_CancelledOnce ==
  \A a \in DOMAIN attempts :
    /\ attempts[a].clears <= 1
    /\ attempts[a].clears > 0 =>
         Range(attempts[a].hist) \cap {"r200cfg", "r500", "rnull", "errPayload"} /= {}

\* the step is a call of getAccessToken(options) in the browser mode that
\* got past the destructuring of its argument
BrowserCall(options) ==
  /\ ~auth.electron
  /\ auth'.calls = auth.calls + 1
  /\ auth'.op = "getAccessToken"
  /\ auth'.options = options
  /\ options.kind \in {"primitive", "object"}

\* clientId + JSON.stringify(scopes) for the scopes of options
KeyOfScopes(options) ==
  <<"clientId", IF options.scopes = "" THEN "[]" ELSE options.scopes>>

\* the cache holds under that key a token that is not expired
CachedUnexpired(options) ==
  /\ KeyOfScopes(options) \in DOMAIN auth.storage
  /\ auth.storage[KeyOfScopes(options)].t = "string"
  /\ auth.storage[KeyOfScopes(options)].s \in AccessTokens \ auth.expired

\* C13: a call of getAccessToken in the browser mode that finds an unexpired
\* token under clientId + JSON.stringify(scopes) returns exactly that token,
\* opens no popup, creates no iframe, and leaves the cache and the held id
\* token as they were.
C13_CacheHit ==
  [][\A options \in AuthOptions : (BrowserCall(options) /\ CachedUnexpired(options)) =>
       /\ auth'.pc = "idle"
       /\ auth'.result = [state |-> "resolved", value |-> auth.storage[KeyOfScopes(options)]]
       /\ auth'.popups = auth.popups
       /\ auth'.frames = auth.frames
       /\ auth'.did = {}
       /\ auth'.storage = auth.storage
       /\ auth'.idToken = auth.idToken]_vars

\* a second call with the scopes of the first returned the cached token of the
\* first, while the id token it would have had to refresh is expired
C13_Witness ==
  /\ ~auth.electron
  /\ auth.calls = 2
  /\ auth.op = "getAccessToken"
  /\ auth.options = [kind |-> "object", scopes |-> "[\"user_impersonation\"]"]
  /\ auth.pc = "idle"
  /\ auth.did = {}
  /\ auth.idToken = Str("id1") /\ "id1" \in auth.expired
  /\ auth.result = [state |-> "resolved", value |-> Str("at2")]
  /\ auth.storage[<<"clientId", "[\"user_impersonation\"]">>] = Str("at2")

\* an id token is held: the module's idToken is a non-empty string
HeldIdToken(st) == st.idToken.t = "string" /\ st.idToken.s /= ""

\* the step is the monitor of the popup or of the refresh iframe resolving
IdTokenResolves ==
  /\ auth.pc \in {"popup", "refresh"}
  /\ auth'.op = "getAccessToken"
  /\ auth'.pc /= auth.pc
  /\ "caught" \notin auth'.did

\* C14: on a cache miss in the browser mode the popup is asked for exactly
\* when no id token is held, the silent refresh iframe is created exactly
\* when an id token is held and expired, neither when it is unexpired; and
\* what the popup or the refresh gave is then the held id token and is in
\* the cache under 'idToken' (as '' when it gave none).
C14_IdTokenStateMachine ==
  [][/\ \A options \in AuthOptions : (BrowserCall(options) /\ ~CachedUnexpired(options)) =>
          /\ "createPopupWindow" \in auth'.did <=> ~HeldIdToken(auth)
          /\ auth'.popups > auth.popups => ~HeldIdToken(auth)
          /\ "refreshFrame" \in auth'.did <=>
               (HeldIdToken(auth) /\ auth.idToken.s \in auth.expired)
          /\ (HeldIdToken(auth) /\ auth.idToken.s \notin auth.expired) =>
               /\ auth'.did \subseteq {"accessFrame", "accessFrameRemoved"}
               /\ auth'.idToken = auth.idToken
               /\ auth'.popups = auth.popups
          /\ ("refreshFrame" \in auth'.did /\ auth'.pc /= "refresh") =>
               /\ auth'.idToken = Null
               /\ getTokenFromCache(auth'.storage, <<"idToken", "">>) = Str("")
     /\ IdTokenResolves =>
          /\ auth'.popups = auth.popups
          /\ auth'.idToken \in {Undefined} \cup {Str(x) : x \in IdTokens}
          /\ getTokenFromCache(auth'.storage, <<"idToken", "">>) =
               (IF HeldIdToken(auth') THEN auth'.idToken ELSE Str(""))]_vars

\* the first call got id1 through the popup; id1 expired, and a later call
\* refreshed it silently to id2, which is now held and cached
C14_Witness ==
  /\ ~auth.electron
  /\ auth.popups = 1
  /\ "refreshFrame" \in auth.did
  /\ "id1" \in auth.expired
  /\ auth.idToken = Str("id2")
  /\ auth.storage[<<"idToken", "">>] = Str("id2")

\* the step is one of a getAccessToken call in the browser mode: its call or
\* the settling of one of its awaits
BrowserStep ==
  /\ ~auth.electron
  /\ auth'.op = "getAccessToken"
  /\ auth'.options.kind \in {"primitive", "object"}
  /\ auth'.calls = auth.calls + 1 \/ auth'.pc /= auth.pc

\* the cache entries under the client-scoped keys
ClientEntries(st) == [k \in {x \in DOMAIN st.storage : x[1] = "clientId"} |-> st.storage[k]]

\* C15 (as claimed): a call that holds an id token after the id-token step
\* creates the access-token iframe, and on every path on which it returns
\* after that, the iframe has been removed and a token it returns is the one
\* it stored under clientId + JSON.stringify(scopes).
C15_AccessToken ==
  [][BrowserStep =>
       /\ (auth'.pc \in {"access", "idle"} /\ HeldIdToken(auth') /\ auth'.did /= {}
             /\ auth.pc /= "access" /\ "caught" \notin auth'.did)
            => "accessFrame" \in auth'.did
       /\ (auth'.pc = "idle" /\ "accessFrame" \in auth'.did) =>
            /\ "accessFrameRemoved" \in auth'.did
            /\ auth'.result.state = "resolved"
            /\ auth'.result.value /= Str("") =>
                 getTokenFromCache(auth'.storage, KeyOfScopes(auth'.options)) = auth'.result.value]_vars

\* C16 (as claimed): when the popup cannot be created, when the monitor of the
\* popup or of the refresh iframe resolves to undefined, or when the refresh
\* iframe has no content window, the call returns '' with no access-token
\* iframe created and the access-token cache entries as they were.
C16_NoIdToken ==
  [][(/\ BrowserStep
      /\ \/ "createPopupWindow" \in auth'.did /\ auth'.popups = auth.popups
               /\ auth'.calls = auth.calls + 1
         \/ IdTokenResolves /\ auth'.idToken = Undefined
         \/ "refreshFrame" \in auth'.did /\ auth'.idToken = Null
               /\ auth'.calls = auth.calls + 1) =>
       /\ auth'.pc = "idle"
       /\ auth'.result = [state |-> "resolved", value |-> Str("")]
       /\ "accessFrame" \notin auth'.did
       /\ ClientEntries(auth') = ClientEntries(auth)]_vars

\* C17 (as claimed): after logOut in the browser mode the cache has no entry
\* under 'idToken' and none under a key clientId + JSON.stringify(scopes); in
\* the embedded mode logOut calls the server and leaves the cache alone.
C17_LogOut ==
  [][(auth'.op = "logOut" /\ auth'.calls = auth.calls + 1) =>
       IF auth.electron
       THEN "fetchLogOut" \in auth'.did /\ auth'.storage = auth.storage
       ELSE /\ <<"idToken", "">> \notin DOMAIN auth'.storage
            /\ DOMAIN ClientEntries(auth') = {}]_vars

\* the listing has no luis.settings file, or those it has are read and
\* contribute no app id
NoAppIds(files) ==
  \A i \in DOMAIN files :
    (\E j \in DOMAIN files[i].path : files[i].path[j] = "luis.settings") =>
      files[i].readable /\ files[i].luis = <<>>

\* C18: when the scan finds no luis.settings file, or the files found give
\* no app id, publishLuisToPrediction returns the empty mapping and has sent
\* no accounts GET and no assignment POST.
C18_EmptyMapping ==
  (luis.pc \notin {"idle", "start"} /\ NoAppIds(luis.files)) =>
    /\ luis.pc = "done"
    /\ luis.result = [state |-> "returned", value |-> <<>>, error |-> NoError]
    /\ luis.gets = 0
    /\ luis.posts = 0

\* a listing of two files, one of them a luis.settings file with an empty
\* mapping, after the call returned
C18_Witness ==
  /\ luis.pc = "done"
  /\ Len(luis.files) = 2
  /\ \E i \in DOMAIN luis.files : luis.files[i].path[1] = "luis.settings" /\ luis.files[i].hasLuis
  /\ NoAppIds(luis.files)
  /\ luis.result.state = "returned"
  /\ luis.gets = 0

\* the accounts request failed with a JSON payload whose message has the
\* piece "access token expiry" somewhere
ExpiredCredential(err) ==
  /\ err.type /= "none"
  /\ err.error.kind = "json"
  /\ \E i \in DOMAIN ErrorMessage(err.error) : ErrorMessage(err.error)[i] = "access token expiry"

\* C19 (as claimed): when the accounts request fails with a payload whose
\* message contains "access token expiry" at any position, the error raised
\* has the remediation instruction in its message, and no assignment POST
\* is sent.
C19_Remediation ==
  ExpiredCredential(luis.requestError) =>
    /\ luis.result.state = "thrown"
    /\ luis.result.error.type = "Error"
    /\ Includes(luis.result.error.message, RemediationPiece)
    /\ luis.posts = 0

\* C20 (as claimed): every other failure of the accounts request is raised
\* again unchanged: the error thrown is the error the request rejected with,
\* whatever its error field.
C20_RethrownUnchanged ==
  (luis.requestError /= NoError /\ ~ExpiredCredential(luis.requestError)) =>
    /\ luis.result.state = "thrown"
    /\ luis.result.error = luis.requestError

\* the attempt is in a terminal state: its timer has been cancelled
Terminal(a) == a \in DOMAIN attempts /\ attempts[a].timer = "cleared"

\* C21 (as claimed): once a tick of an attempt has cancelled the timer (on
\* success, with the entry removed, or on failure), no later step of that
\* attempt changes the type of its notification, writes the status entry of
\* targetName, or makes any other state write.
C21_TerminalStable ==
  [][\A a \in AttemptIds : (Terminal(a) /\ StepOf(a)) =>
       LET r == attempts[a] IN
         /\ notifications'[r.notificationId].type = notifications[r.notificationId].type
         /\ HasEntry(provisionStatus', r) = HasEntry(provisionStatus, r)
         /\ EntryOf(provisionStatus', r) = EntryOf(provisionStatus, r)
         /\ attempts'[a].notifUpdates = r.notifUpdates
         /\ settings' = settings]_vars

\* the attempts that handled a terminal success
Succeeded == {a \in DOMAIN attempts : "r200cfg" \in Range(attempts[a].hist)}

\* C22 (as claimed): each attempt appends at most one publish-target profile,
\* and none unless it reached terminal success: there are no more profiles
\* than attempts that succeeded.
C22_OneProfilePerAttempt ==
  \A p \in Projects :
    Len(TargetsOf(settings[p])) <= Cardinality({a \in Succeeded : attempts[a].projectId = p})

\* C23 (as claimed): a getAccessToken call that follows a logOut in the
\* browser mode and misses the cache creates the access-token iframe only
\* after a new popup: never at once, from the id token held since before
\* the logOut.
C23_SessionReset ==
  [][\A options \in AuthOptions :
       (auth.op = "logOut" /\ auth.pc = "idle" /\ BrowserCall(options)
          /\ ~CachedUnexpired(options)) =>
         \/ "accessFrame" \notin auth'.did
         \/ /\ "createPopupWindow" \in auth'.did
            /\ auth'.idToken /= auth.idToken]_vars

\* C24 (as claimed): every cache entry under a key clientId +
\* JSON.stringify(scopes) is a non-empty token string that getAccessToken
\* obtained.
C24_CacheHoldsTokens ==
  \A k \in DOMAIN auth.storage :
    k[1] = "clientId" =>
      /\ auth.storage[k].t = "string"
      /\ auth.storage[k].s \in AccessTokens

====
